---- MODULE Spec2Model ----
(***************************************************************************)
(* Model of the chat endpoint of agent-template: the POST handler of       *)
(* src/app/api/chat/route.ts, which validates the request body, awaits the *)
(* agent run and reshapes the run result into the JSON reply.              *)
(*                                                                         *)
(* TLA+ strings are ASCII, so the Japanese literals of the source are      *)
(* written in romanised form; each definition names the literal it stands  *)
(* for.                                                                    *)
(***************************************************************************)
EXTENDS Integers, Sequences, FiniteSets, TLC

(***************************************************************************)
(* Bounds of the model.                                                    *)
(***************************************************************************)
\* number of handler invocations that may be in progress at the same time
NumInvocations == 2
\* longest newItems trace an agent run returns
MaxItems == 2
\* latest reading of the server clock, in ticks; a day has two ticks
MaxClock == 3
\* number of messages the user submits
MaxTurns == 2
\* number of items of the TODO list whose completion button is clicked
MaxShown == 1

(***************************************************************************)
(* State of the server.                                                    *)
(*   pending[i]  where invocation i of POST stands: "idle" (not running)   *)
(*               or "awaiting" (suspended in await run(...)), with the     *)
(*               body it was given and the number of calls of run it made  *)
(*   returned    the invocation whose return value the framework is        *)
(*               sending: its body, the calls of run it made, how run      *)
(*               ended, and its response; [inv |-> 0] when there is none.  *)
(*               Handler code runs on one thread, so a continuation runs   *)
(*               up to its return before another one starts.               *)
(*   earlier     history: an exchange (body, run outcome, response) that   *)
(*               was completed before the current one, kept for comparing  *)
(*               two exchanges; [inv |-> 0] when none is kept.             *)
(***************************************************************************)
VARIABLES pending, returned, earlier
serverVars == <<pending, returned>>

(***************************************************************************)
(* State of a tool handler under test.                                     *)
(*   toolCall    the latest call of a tool handler: the tool, its          *)
(*               arguments, the clock reading and the outcome returned     *)
(*   prevCall    the call before it; [called |-> FALSE] when there is none *)
(***************************************************************************)
VARIABLES toolCall, prevCall
toolVars == <<toolCall, prevCall>>

(***************************************************************************)
(* State of the chat page (ChatPage) and of its requests.                  *)
(*   messages, inputValue, isLoading, todos, contacts, meetings,           *)
(*   specifications   the useState values of the component                 *)
(*   uiNow       the browser clock, in ticks: a tick passes before each    *)
(*               event handler or continuation runs, and Date.now() reads  *)
(*               the same tick throughout one of them                      *)
(*   fetches     the calls of fetch that have not settled: the request on  *)
(*               its way, being handled by an invocation of POST, or the   *)
(*               response on its way back                                  *)
(*   done        history: how the latest turn ended ("reply" or "error"),  *)
(*               the parsed reply, the toasts shown and the useState       *)
(*               values before the continuation ran                        *)
(***************************************************************************)
VARIABLES messages, inputValue, isLoading, todos, contacts, meetings,
          specifications, uiNow, fetches, done
pageVars == <<messages, inputValue, isLoading, todos, contacts, meetings,
              specifications, uiNow>>
uiVars == <<messages, inputValue, isLoading, todos, contacts, meetings,
            specifications, uiNow, fetches, done>>

vars == <<pending, returned, earlier, toolCall, prevCall, messages,
          inputValue, isLoading, todos, contacts, meetings, specifications,
          uiNow, fetches, done>>

(***************************************************************************)
(* JavaScript values the handler inspects, tagged by their typeof.         *)
(***************************************************************************)
Undefined == [type |-> "undefined"]
Null == [type |-> "null"]
Str(s) == [type |-> "string", val |-> s]
Num(s) == [type |-> "number", val |-> s]
Bool(b) == [type |-> "boolean", val |-> b]
Arr(items) == [type |-> "object", items |-> items]

\* ToBoolean: undefined, null, "", 0, NaN and false are falsy, all else truthy
Truthy(v) ==
    CASE v.type = "undefined" -> FALSE
      [] v.type = "null" -> FALSE
      [] v.type = "string" -> v.val # ""
      [] v.type = "number" -> v.val \notin {"0", "NaN"}
      [] v.type = "boolean" -> v.val
      [] OTHER -> TRUE

\* a && b: the left operand itself when it is falsy, else the right operand
JsAnd(a, b) == IF Truthy(a) THEN b ELSE a

(***************************************************************************)
(* The history value.                                                      *)
(***************************************************************************)
NoExchange == [kept |-> FALSE]
Exchange(r) == [kept |-> TRUE, body |-> r.body, run |-> r.run, res |-> r.res]

\* the earlier exchange was answered with a 200 reply
EarlierReplied == earlier.kept /\ earlier.res.status = 200

(***************************************************************************)
(* Agent definitions (route.ts 256-294); only the names reach the handler. *)
(***************************************************************************)
\* 'TODO管理係'
todoManagerAgent == [type |-> "object", name |-> "TODO-kanri-gakari"]
\* '連絡管理係'
contactManagementAgent == [type |-> "object", name |-> "Renraku-kanri-gakari"]
\* '仕様書管理係'
specificationAgent == [type |-> "object", name |-> "Shiyousho-kanri-gakari"]
\* 'ボス'
bossAgent == [type |-> "object", name |-> "Boss"]
\* the literal 'ボス' the handler compares agent names with
BossName == "Boss"

(***************************************************************************)
(* Tool handlers (route.ts 7-253): execute(args) read at clock reading now.*)
(***************************************************************************)
\* a value inside a template literal
ToStr(v) ==
    CASE v.type = "string" -> v.val
      [] v.type = "undefined" -> "undefined"
      [] v.type = "null" -> "null"
      [] OTHER -> "[object]"

\* a || b
JsOr(a, b) == IF Truthy(a) THEN a ELSE b

\* Date.now().toString()
DateNowString(now) == ToString(now)

\* new Date().toLocaleDateString(): the day the tick falls on
LocaleDateString(now) == "day " \o ToString(now \div 2)

\* 'TODO管理係', '連絡管理係', '仕様書管理係'
TodoSpeaker == "TODO-kanri-gakari"
ContactSpeaker == "Renraku-kanri-gakari"
SpecSpeaker == "Shiyousho-kanri-gakari"

\* '不明なアクションです'
UnknownActionMessage == "fumei na action desu"

\* faulty variant: the id comes from a count of calls, not from the clock
todoManagerTool_CountsCalls(args, now) ==
    CASE args.action = "create" ->
            [success |-> TRUE,
             message |-> "TODO [" \o ToStr(args.title) \o "] wo sakusei shimashita!",
             data |-> [title |-> args.title, description |-> args.description,
                       id |-> Str(IF toolCall.called THEN "2" ELSE "1")],
             showToast |-> TRUE,
             speaker |-> TodoSpeaker]
      [] args.action = "list" ->
            [success |-> TRUE,
             message |-> "genzai no TODO list wo kakunin shiteimasu...",
             data |-> [todos |-> Arr(<<>>)],
             speaker |-> TodoSpeaker]
      [] args.action = "complete" ->
            [success |-> TRUE,
             message |-> "TODO [" \o ToStr(args.id) \o "] wo kanryou ni shimashita!",
             data |-> [completedId |-> args.id],
             speaker |-> TodoSpeaker]
      [] OTHER ->
            [success |-> FALSE,
             message |-> UnknownActionMessage,
             speaker |-> TodoSpeaker]

\* manage_todo, lines 16-49
todoManagerTool(args, now) ==
    CASE args.action = "create" ->
            [success |-> TRUE,
             message |-> "TODO [" \o ToStr(args.title) \o "] wo sakusei shimashita!",
             data |-> [title |-> args.title, description |-> args.description,
                       id |-> Str(DateNowString(now))],
             showToast |-> TRUE,
             speaker |-> TodoSpeaker]
      [] args.action = "list" ->
            [success |-> TRUE,
             message |-> "genzai no TODO list wo kakunin shiteimasu...",
             data |-> [todos |-> Arr(<<>>)],
             speaker |-> TodoSpeaker]
      [] args.action = "complete" ->
            [success |-> TRUE,
             message |-> "TODO [" \o ToStr(args.id) \o "] wo kanryou ni shimashita!",
             data |-> [completedId |-> args.id],
             speaker |-> TodoSpeaker]
      [] OTHER ->
            [success |-> FALSE,
             message |-> UnknownActionMessage,
             speaker |-> TodoSpeaker]

\* faulty variant: the switch has no default branch, so execute returns
\* undefined for an action it does not know
contactManagementTool_NoDefault(args, now) ==
    CASE args.action = "add_contact" ->
            [success |-> TRUE,
             message |-> "renrakusaki [" \o ToStr(args.name) \o "] wo tsuika shimashita!\nshousai: "
                         \o ToStr(JsOr(args.details, Str("shousai nashi"))),
             data |-> [contactName |-> args.name, details |-> args.details],
             speaker |-> ContactSpeaker,
             showToast |-> TRUE]
      [] args.action = "schedule_meeting" ->
            [success |-> TRUE,
             message |-> "kaigi [" \o ToStr(args.name) \o "] wo schedule shimashita!\nnichiji: "
                         \o ToStr(args.datetime) \o "\nshousai: "
                         \o ToStr(JsOr(args.details, Str("shousai nashi"))),
             data |-> [meetingTitle |-> args.name, datetime |-> args.datetime,
                       details |-> args.details],
             speaker |-> ContactSpeaker,
             showToast |-> TRUE]
      [] args.action = "send_reminder" ->
            [success |-> TRUE,
             message |-> "reminder wo soushin shimashita: " \o ToStr(args.details),
             data |-> [reminder |-> args.details],
             speaker |-> ContactSpeaker,
             showToast |-> TRUE]
      [] args.action = "check_schedule" ->
            [success |-> TRUE,
             message |-> "honjitsu no schedule wo kakunin shiteimasu...",
             data |-> [schedule |-> Arr(<<>>)],
             speaker |-> ContactSpeaker]
      [] OTHER -> Undefined

\* manage_contact, lines 62-104
contactManagementTool(args, now) ==
    CASE args.action = "add_contact" ->
            [success |-> TRUE,
             message |-> "renrakusaki [" \o ToStr(args.name) \o "] wo tsuika shimashita!\nshousai: "
                         \o ToStr(JsOr(args.details, Str("shousai nashi"))),
             data |-> [contactName |-> args.name, details |-> args.details],
             speaker |-> ContactSpeaker,
             showToast |-> TRUE]
      [] args.action = "schedule_meeting" ->
            [success |-> TRUE,
             message |-> "kaigi [" \o ToStr(args.name) \o "] wo schedule shimashita!\nnichiji: "
                         \o ToStr(args.datetime) \o "\nshousai: "
                         \o ToStr(JsOr(args.details, Str("shousai nashi"))),
             data |-> [meetingTitle |-> args.name, datetime |-> args.datetime,
                       details |-> args.details],
             speaker |-> ContactSpeaker,
             showToast |-> TRUE]
      [] args.action = "send_reminder" ->
            [success |-> TRUE,
             message |-> "reminder wo soushin shimashita: " \o ToStr(args.details),
             data |-> [reminder |-> args.details],
             speaker |-> ContactSpeaker,
             showToast |-> TRUE]
      [] args.action = "check_schedule" ->
            [success |-> TRUE,
             message |-> "honjitsu no schedule wo kakunin shiteimasu...",
             data |-> [schedule |-> Arr(<<>>)],
             speaker |-> ContactSpeaker]
      [] OTHER ->
            [success |-> FALSE,
             message |-> UnknownActionMessage,
             speaker |-> ContactSpeaker]

\* the default document of create_spec, lines 122-147 (headings shortened)
DefaultSpecMarkdown(title, now) ==
    "# " \o ToStr(title) \o "\n## gaiyou\n" \o ToStr(title)
    \o " no shiyousho desu.\n## youken\n## sekkei\n## jissou houshin\n## test keikaku\n---\n*sakuseibi: "
    \o LocaleDateString(now) \o "*"

\* the template of generate_template, lines 172-236 (headings shortened)
TemplateMarkdown(type, now) ==
    "# " \o ToStr(type) \o " shiyousho template\n## 1. gaiyou\n" \o ToStr(type)
    \o " ni kansuru shiyousho no template desu.\n## 2. mokuteki\n---\n*template sakuseibi: "
    \o LocaleDateString(now) \o "*"

\* manage_specification, lines 117-252
specificationTool(args, now) ==
    CASE args.action = "create_spec" ->
            [success |-> TRUE,
             message |-> "shiyousho [" \o ToStr(args.title) \o "] wo sakusei shimashita!\ntype: "
                         \o ToStr(JsOr(args.type, Str("mishitei"))),
             data |-> [title |-> args.title, type |-> args.type,
                       content |-> JsOr(args.content,
                                        Str(DefaultSpecMarkdown(args.title, now)))],
             speaker |-> SpecSpeaker,
             showToast |-> TRUE]
      [] args.action = "update_requirement" ->
            [success |-> TRUE,
             message |-> "youken [" \o ToStr(args.title) \o "] wo koushin shimashita!\nkoushin naiyou: "
                         \o ToStr(args.content),
             data |-> [requirement |-> args.title, updates |-> args.content],
             speaker |-> SpecSpeaker,
             showToast |-> TRUE]
      [] args.action = "review_doc" ->
            [success |-> TRUE,
             message |-> "document [" \o ToStr(args.title) \o "] wo review shiteimasu...",
             data |-> [reviewed |-> args.title],
             speaker |-> SpecSpeaker]
      [] args.action = "generate_template" ->
            [success |-> TRUE,
             message |-> ToStr(args.type) \o " shiyousho no template wo seisei shimashita!",
             data |-> [title |-> Str(ToStr(args.type) \o " shiyousho template"),
                       type |-> args.type,
                       content |-> Str(TemplateMarkdown(args.type, now))],
             speaker |-> SpecSpeaker,
             showToast |-> TRUE]
      [] OTHER ->
            [success |-> FALSE,
             message |-> UnknownActionMessage,
             speaker |-> SpecSpeaker]

\* the three tools by their names
Tools == {"manage_todo", "manage_contact", "manage_specification"}

Execute(tool, args, now) ==
    CASE tool = "manage_todo" -> todoManagerTool(args, now)
      [] tool = "manage_contact" -> contactManagementTool(args, now)
      [] tool = "manage_specification" -> specificationTool(args, now)

\* z.enum([...]) of each tool's action parameter
ActionEnum(tool) ==
    CASE tool = "manage_todo" -> {"create", "list", "complete"}
      [] tool = "manage_contact" ->
            {"add_contact", "schedule_meeting", "send_reminder", "check_schedule"}
      [] tool = "manage_specification" ->
            {"create_spec", "update_requirement", "review_doc", "generate_template"}

(***************************************************************************)
(* Two outcomes of tool handlers, as they appear in item.output.           *)
(***************************************************************************)
\* manage_todo, action 'create', title 'report'
TodoCreateOutcome ==
    todoManagerTool([action |-> "create", title |-> Str("report"),
                     description |-> Str("weekly"), id |-> Undefined], 1)

\* manage_contact, action 'check_schedule' (no showToast field)
CheckScheduleOutcome ==
    contactManagementTool([action |-> "check_schedule", name |-> Undefined,
                           details |-> Undefined, datetime |-> Undefined], 1)

(***************************************************************************)
(* Inputs: request bodies and results of the agent run.                    *)
(***************************************************************************)
\* values of the message field of a JSON object body; Undefined = absent
MessageValues == {Undefined, Null, Str(""), Num("0"), Str("hello")}

\* request.json(): rejects (not JSON), or yields null, a scalar or an object
Bodies ==
    {[kind |-> "unparsable"], [kind |-> "null"], [kind |-> "scalar"]}
    \cup {[kind |-> "object", message |-> m] : m \in MessageValues}

ToolCallOutputItem(output, agent) ==
    [type |-> "tool_call_output_item", output |-> output, agent |-> agent]
MessageOutputItem(content, agent) ==
    [type |-> "message_output_item", content |-> content, agent |-> agent]
HandoffOutputItem(agent) ==
    [type |-> "handoff_output_item", agent |-> agent]

Items ==
    {ToolCallOutputItem(TodoCreateOutcome, todoManagerAgent),
     ToolCallOutputItem(CheckScheduleOutcome, contactManagementAgent),
     MessageOutputItem("boss text", bossAgent),
     MessageOutputItem("todo text", todoManagerAgent),
     MessageOutputItem("contact text", contactManagementAgent),
     MessageOutputItem("anonymous text", Undefined),
     HandoffOutputItem(bossAgent)}

ItemSeqs == UNION {[1..n -> Items] : n \in 0..MaxItems}

FinalOutputs == {"konnichiwa", "kanryou shimashita"}
LastAgents == {Undefined, bossAgent, todoManagerAgent, contactManagementAgent}

\* what run(bossAgent, message) resolves to
Results ==
    [finalOutput : FinalOutputs,
     lastAgent : LastAgents,
     newItems : {Undefined} \cup {Arr(s) : s \in ItemSeqs}]

(***************************************************************************)
(* The handler's steps as operators.                                       *)
(***************************************************************************)
\* NextResponse.json(body, {status})
NextResponseJson(body, status) == [status |-> status, body |-> body]

\* faulty variant: a rejected parse is taken for a body without a message
DestructureThrows_OnlyNull(body) == body.kind = "null"

\* const { message } = await request.json()  -- throws on a rejected parse
\* and on destructuring null
DestructureThrows(body) == body.kind \in {"unparsable", "null"}
MessageOf(body) == IF body.kind = "object" THEN body.message ELSE Undefined

\* faulty variant: tests only for an absent message
MessageMissing_OnlyUndefined(message) == message = Undefined

\* if (!message)
MessageMissing(message) == ~Truthy(message)

\* faulty variant: the comparison with the routing agent's name inverted
HandoffOccurred_Inverted(result) ==
    JsAnd(result.lastAgent,
          IF result.lastAgent.type = "object"
          THEN Bool(result.lastAgent.name = BossName)
          ELSE Undefined)

\* faulty variant: any lastAgent counts as a handoff
HandoffOccurred_AnyLastAgent(result) ==
    JsAnd(result.lastAgent, Bool(TRUE))

\* result.lastAgent && result.lastAgent.name !== 'ボス'
HandoffOccurred(result) ==
    JsAnd(result.lastAgent,
          IF result.lastAgent.type = "object"
          THEN Bool(result.lastAgent.name # BossName)
          ELSE Undefined)

\* faulty variant: tool outputs are put in front of the list instead of at its end
PushItem_Unshift(acc, item) ==
    IF item.type = "tool_call_output_item"
    THEN [acc EXCEPT !.toolResults = <<item.output>> \o @]
    ELSE IF item.type = "message_output_item"
         THEN IF Truthy(item.agent) /\ item.agent.name # BossName
              THEN [acc EXCEPT !.agentResponses =
                        Append(@, [content |-> item.content,
                                   speaker |-> item.agent.name])]
              ELSE acc
         ELSE acc

\* faulty variant: the routing agent's messages are not filtered out
PushItem_AllMessages(acc, item) ==
    IF item.type = "tool_call_output_item"
    THEN [acc EXCEPT !.toolResults = Append(@, item.output)]
    ELSE IF item.type = "message_output_item"
         THEN IF Truthy(item.agent)
              THEN [acc EXCEPT !.agentResponses =
                        Append(@, [content |-> item.content,
                                   speaker |-> item.agent.name])]
              ELSE acc
         ELSE acc

\* faulty variant: a later agent message replaces the earlier ones
PushItem_Overwrite(acc, item) ==
    IF item.type = "tool_call_output_item"
    THEN [acc EXCEPT !.toolResults = Append(@, item.output)]
    ELSE IF item.type = "message_output_item"
         THEN IF Truthy(item.agent) /\ item.agent.name # BossName
              THEN [acc EXCEPT !.agentResponses =
                        <<[content |-> item.content,
                           speaker |-> item.agent.name]>>]
              ELSE acc
         ELSE acc

\* one iteration of the loop over result.newItems
PushItem(acc, item) ==
    IF item.type = "tool_call_output_item"
    THEN [acc EXCEPT !.toolResults = Append(@, item.output)]
    ELSE IF item.type = "message_output_item"
         THEN IF Truthy(item.agent) /\ item.agent.name # BossName
              THEN [acc EXCEPT !.agentResponses =
                        Append(@, [content |-> item.content,
                                   speaker |-> item.agent.name])]
              ELSE acc
         ELSE acc

RECURSIVE ForEachItem(_, _, _)
ForEachItem(items, k, acc) ==
    IF k > Len(items) THEN acc
    ELSE ForEachItem(items, k + 1, PushItem(acc, items[k]))

\* faulty variant: the two lists are kept at module level and not emptied
ExtractItems_Accumulating(result) ==
    LET start == IF EarlierReplied
                 THEN [toolResults |-> earlier.res.body.tools,
                       agentResponses |-> earlier.res.body.agentResponses]
                 ELSE [toolResults |-> <<>>, agentResponses |-> <<>>]
    IN IF Truthy(result.newItems)
       THEN ForEachItem(result.newItems.items, 1, start)
       ELSE start

\* faulty variant: agentResponses alone is kept at module level
ExtractItems_SharedAgentResponses(result) ==
    LET start == IF EarlierReplied
                 THEN [toolResults |-> <<>>,
                       agentResponses |-> earlier.res.body.agentResponses]
                 ELSE [toolResults |-> <<>>, agentResponses |-> <<>>]
    IN IF Truthy(result.newItems)
       THEN ForEachItem(result.newItems.items, 1, start)
       ELSE start

\* toolResults and agentResponses after "if (result.newItems) { for ... }"
ExtractItems(result) ==
    IF Truthy(result.newItems)
    THEN ForEachItem(result.newItems.items, 1,
                     [toolResults |-> <<>>, agentResponses |-> <<>>])
    ELSE [toolResults |-> <<>>, agentResponses |-> <<>>]

\* `${agentName}に依頼いたします。`
DelegationMessage(agentName) == agentName \o " ni irai itashimasu."

\* faulty variant: finalOutput is passed through also after a handoff
BossResponse_PassThrough(result, handoffOccurred) == result.finalOutput

\* faulty variant: the delegation string is used whenever there is a lastAgent
BossResponse_IgnoresFlag(result, handoffOccurred) ==
    IF Truthy(result.lastAgent)
    THEN DelegationMessage(result.lastAgent.name)
    ELSE result.finalOutput

\* let bossResponse = result.finalOutput; if (handoffOccurred && result.lastAgent) ...
BossResponse(result, handoffOccurred) ==
    IF Truthy(JsAnd(handoffOccurred, result.lastAgent))
    THEN DelegationMessage(result.lastAgent.name)
    ELSE result.finalOutput

\* the object given to NextResponse.json; JSON.stringify leaves out a key
\* whose value is undefined
ReplyBody(response, toolResults, agentResponses, handoffOccurred) ==
    IF handoffOccurred = Undefined
    THEN [response |-> response, speaker |-> BossName,
          tools |-> toolResults, agentResponses |-> agentResponses]
    ELSE [response |-> response, speaker |-> BossName,
          tools |-> toolResults, agentResponses |-> agentResponses,
          handoffOccurred |-> handoffOccurred.val]

\* lines 306-341: the reply for a run result
ChatReply(result) ==
    LET handoffOccurred == HandoffOccurred(result)
        lists == ExtractItems(result)
    IN NextResponseJson(
           ReplyBody(BossResponse(result, handoffOccurred),
                     lists.toolResults, lists.agentResponses, handoffOccurred),
           200)

MessageRequired == NextResponseJson([error |-> "Message is required"], 400)

\* faulty variant: the catch block forgets {status: 500}
InternalServerError_NoStatus ==
    NextResponseJson([error |-> "Internal server error"], 200)

InternalServerError == NextResponseJson([error |-> "Internal server error"], 500)

Invocations == 1..NumInvocations

Idle == [pc |-> "idle"]
None == [inv |-> 0]
NoRun == [ended |-> "not called"]
RunThrew == [ended |-> "threw"]
RunReturned(result) == [ended |-> "returned", result |-> result]

InitServer ==
    /\ pending = [i \in Invocations |-> Idle]
    /\ returned = None
    /\ earlier = NoExchange

\* POST up to its first return or to the await of run (lines 296-304)
PostStart(i, body) ==
    /\ returned = None
    /\ pending[i].pc = "idle"
    /\ IF DestructureThrows(body)
       THEN /\ returned' = [inv |-> i, body |-> body, runCalls |-> 0,
                        run |-> NoRun, res |-> InternalServerError]
            /\ UNCHANGED pending
       ELSE IF MessageMissing(MessageOf(body))
       THEN /\ returned' = [inv |-> i, body |-> body, runCalls |-> 0,
                        run |-> NoRun, res |-> MessageRequired]
            /\ UNCHANGED pending
       ELSE /\ pending' = [pending EXCEPT ![i] =
                               [pc |-> "awaiting", body |-> body, runCalls |-> 1]]
            /\ UNCHANGED returned

\* run resolves: lines 306-341
PostResolved(i, result) ==
    /\ returned = None
    /\ pending[i].pc = "awaiting"
    /\ returned' = [inv |-> i, body |-> pending[i].body,
                runCalls |-> pending[i].runCalls,
                run |-> RunReturned(result), res |-> ChatReply(result)]
    /\ pending' = [pending EXCEPT ![i] = Idle]

\* run rejects: the catch block, lines 343-349
PostRejected(i) ==
    /\ returned = None
    /\ pending[i].pc = "awaiting"
    /\ returned' = [inv |-> i, body |-> pending[i].body,
                runCalls |-> pending[i].runCalls,
                run |-> RunThrew, res |-> InternalServerError]
    /\ pending' = [pending EXCEPT ![i] = Idle]

\* the framework sends the returned response; the invocation is over
PostDone ==
    /\ returned # None
    /\ returned' = None
    /\ UNCHANGED pending

(***************************************************************************)
(* The chat page: ChatPage and its handleSubmit.                           *)
(***************************************************************************)
\* 'あなた', '未分類', '操作が完了しました'
UserLabel == "anata"
Uncategorised == "mibunrui"
DefaultToast == "sousa ga kanryou shimashita"
ErrorText == "Sorry, I encountered an error. Please try again."

\* the text of the input box is a sequence of characters
Whitespace == {" "}

RECURSIVE TrimStart(_)
TrimStart(s) ==
    IF s # <<>> /\ Head(s) \in Whitespace THEN TrimStart(Tail(s)) ELSE s

RECURSIVE TrimEnd(_)
TrimEnd(s) ==
    IF s # <<>> /\ s[Len(s)] \in Whitespace
    THEN TrimEnd(SubSeq(s, 1, Len(s) - 1))
    ELSE s

\* String.prototype.trim
Trim(s) == TrimEnd(TrimStart(s))

\* the characters as one string value
RECURSIVE Join(_)
Join(s) == IF s = <<>> THEN "" ELSE Head(s) \o Join(Tail(s))

\* what the user can have in the input box
TypedTexts == {<<>>, <<" ">>, <<" ", "g", "o", " ">>}

\* JSON.stringify({ message: messageToSend }) as request.json() reads it
RequestBody(text) == [kind |-> "object", message |-> Str(Join(text))]

\* response.ok
ResponseOk(res) == res.status \in 200..299

\* JSON.stringify then JSON.parse of an object: keys whose value is
\* undefined are not written
JsonObject(obj) == [k \in {j \in DOMAIN obj : obj[j] # Undefined} |-> obj[k]]

JsonTool(tool) ==
    IF "data" \in DOMAIN tool THEN [tool EXCEPT !.data = JsonObject(@)] ELSE tool

\* await response.json(): the body as it crossed the wire
ResponseJson(res) ==
    IF "tools" \in DOMAIN res.body
    THEN [res.body EXCEPT !.tools = [k \in 1..Len(@) |-> JsonTool(@[k])]]
    ELSE res.body

\* obj.key, undefined when the key is absent
Field(obj, key) == IF key \in DOMAIN obj THEN obj[key] ELSE Undefined

\* tool.data and tool.showToast as conditions
HasData(tool) == "data" \in DOMAIN tool
ShowsToast(tool) == "showToast" \in DOMAIN tool /\ tool.showToast

\* tool.speaker and tool.message, the empty string standing for undefined:
\* both are falsy, and no speaker the page compares with is empty
SpeakerOf(tool) == IF "speaker" \in DOMAIN tool THEN tool.speaker ELSE ""
MessageTextOf(tool) == IF "message" \in DOMAIN tool THEN tool.message ELSE ""

\* the useState lists and the toasts shown, as the tools loop threads them
NoRecords ==
    [todos |-> <<>>, contacts |-> <<>>, meetings |-> <<>>,
     specifications |-> <<>>]
Records ==
    [todos |-> todos, contacts |-> contacts, meetings |-> meetings,
     specifications |-> specifications]

\* faulty variant: the new task starts out completed
NewTodo_Completed(data, now) ==
    [id |-> JsOr(Field(data, "id"), Str(DateNowString(now))),
     title |-> data.title,
     description |-> Field(data, "description"),
     completed |-> TRUE,
     createdAt |-> now]

\* lines 104-110
NewTodo(data, now) ==
    [id |-> JsOr(Field(data, "id"), Str(DateNowString(now))),
     title |-> data.title,
     description |-> Field(data, "description"),
     completed |-> FALSE,
     createdAt |-> now]

\* lines 115-120
NewContact(data, now) ==
    [id |-> Str(DateNowString(now)),
     name |-> data.contactName,
     details |-> JsOr(Field(data, "details"), Str("")),
     createdAt |-> now]

\* lines 123-129
NewMeeting(data, now) ==
    [id |-> Str(DateNowString(now)),
     title |-> data.meetingTitle,
     datetime |-> JsOr(Field(data, "datetime"), Str("")),
     details |-> JsOr(Field(data, "details"), Str("")),
     createdAt |-> now]

\* lines 134-140
NewSpec(data, now) ==
    [id |-> Str(DateNowString(now)),
     title |-> data.title,
     type |-> JsOr(Field(data, "type"), Str(Uncategorised)),
     content |-> JsOr(Field(data, "content"), Str("")),
     createdAt |-> now]

\* faulty variant: the entry is bucketed by the fields of its data alone
BucketTool_ByFieldAlone(acc, tool, now) ==
    IF ~HasData(tool) THEN acc
    ELSE IF Truthy(Field(tool.data, "title"))
         THEN [acc EXCEPT !.todos = Append(@, NewTodo(tool.data, now))]
    ELSE IF Truthy(Field(tool.data, "contactName"))
         THEN [acc EXCEPT !.contacts = Append(@, NewContact(tool.data, now))]
    ELSE IF Truthy(Field(tool.data, "meetingTitle"))
         THEN [acc EXCEPT !.meetings = Append(@, NewMeeting(tool.data, now))]
    ELSE acc

\* lines 101-143: the list an entry is appended to
BucketTool(acc, tool, now) ==
    IF SpeakerOf(tool) = TodoSpeaker /\ HasData(tool)
    THEN IF Truthy(Field(tool.data, "title"))
         THEN [acc EXCEPT !.todos = Append(@, NewTodo(tool.data, now))]
         ELSE acc
    ELSE IF SpeakerOf(tool) = ContactSpeaker /\ HasData(tool)
    THEN IF Truthy(Field(tool.data, "contactName"))
         THEN [acc EXCEPT !.contacts = Append(@, NewContact(tool.data, now))]
         ELSE IF Truthy(Field(tool.data, "meetingTitle"))
         THEN [acc EXCEPT !.meetings = Append(@, NewMeeting(tool.data, now))]
         ELSE acc
    ELSE IF SpeakerOf(tool) = SpecSpeaker /\ HasData(tool)
    THEN IF Truthy(Field(tool.data, "title"))
         THEN [acc EXCEPT !.specifications = Append(@, NewSpec(tool.data, now))]
         ELSE acc
    ELSE acc

\* lines 95-144: data.tools.forEach, from entry k on
RECURSIVE UpdateRecords(_, _, _, _)
UpdateRecords(tools, k, acc, now) ==
    IF k > Len(tools) THEN acc
    ELSE UpdateRecords(tools, k + 1, BucketTool(acc, tools[k], now), now)

\* lines 97-99: the toasts of data.tools.forEach, from entry k on
RECURSIVE Toasts(_, _)
Toasts(tools, k) ==
    IF k > Len(tools) THEN <<>>
    ELSE (IF ShowsToast(tools[k])
          THEN <<IF MessageTextOf(tools[k]) # ""
                 THEN MessageTextOf(tools[k])
                 ELSE DefaultToast>>
          ELSE <<>>) \o Toasts(tools, k + 1)

\* lines 66-72
UserBubble(text, now) ==
    [id |-> DateNowString(now), content |-> Join(text), isUser |-> TRUE,
     timestamp |-> now, speaker |-> UserLabel]

\* lines 148-154
BossBubble(data, now) ==
    [id |-> ToString(now + 1), content |-> data.response, isUser |-> FALSE,
     timestamp |-> now,
     speaker |-> IF data.speaker # "" THEN data.speaker ELSE BossName]

\* lines 163-169; index counts from 0
ToolBubble(tool, index, length, now) ==
    [id |-> ToString(now + index + length + 1), content |-> tool.message,
     isUser |-> FALSE, timestamp |-> now, speaker |-> tool.speaker]

\* faulty variant: every entry gets a bubble, with or without message and
\* speaker
RECURSIVE PushToolBubbles_EveryEntry(_, _, _, _)
PushToolBubbles_EveryEntry(tools, k, allMessages, now) ==
    IF k > Len(tools) THEN allMessages
    ELSE PushToolBubbles_EveryEntry(tools, k + 1,
             Append(allMessages,
                    [id |-> ToString(now + k + Len(allMessages)),
                     content |-> MessageTextOf(tools[k]), isUser |-> FALSE,
                     timestamp |-> now, speaker |-> SpeakerOf(tools[k])]),
             now)

\* lines 160-173: the second data.tools.forEach, from entry k on
RECURSIVE PushToolBubbles(_, _, _, _)
PushToolBubbles(tools, k, allMessages, now) ==
    IF k > Len(tools) THEN allMessages
    ELSE PushToolBubbles(tools, k + 1,
             IF MessageTextOf(tools[k]) # "" /\ SpeakerOf(tools[k]) # ""
             THEN Append(allMessages,
                         ToolBubble(tools[k], k - 1, Len(allMessages), now))
             ELSE allMessages,
             now)

\* one bubble for each entry of data.agentResponses
RECURSIVE PushAgentBubbles(_, _, _, _)
PushAgentBubbles(responses, k, allMessages, now) ==
    IF k > Len(responses) THEN allMessages
    ELSE PushAgentBubbles(responses, k + 1,
             Append(allMessages,
                    [id |-> ToString(now + k + Len(allMessages)),
                     content |-> responses[k].content, isUser |-> FALSE,
                     timestamp |-> now, speaker |-> responses[k].speaker]),
             now)

\* faulty variant: the bubbles after the first come from data.agentResponses
ReplyBubbles_FromAgentResponses(data, now) ==
    PushAgentBubbles(data.agentResponses, 1, <<BossBubble(data, now)>>, now)

\* lines 147-175: allMessages
ReplyBubbles(data, now) ==
    PushToolBubbles(data.tools, 1, <<BossBubble(data, now)>>, now)

\* lines 178-183: the message of the catch block; it has no speaker
ErrorBubble(now) ==
    [id |-> ToString(now + 1), content |-> ErrorText, isUser |-> FALSE,
     timestamp |-> now]

\* faulty variant: the catch block appends nothing
OnFailure_Silent(now) ==
    [ended |-> "error", records |-> Records, toasts |-> <<>>,
     appended |-> <<>>]

\* lines 176-184: the catch block, entered before any list was touched
OnFailure(now) ==
    [ended |-> "error", records |-> Records, toasts |-> <<>>,
     appended |-> <<ErrorBubble(now)>>]

\* faulty variant: building the bubbles throws after the lists were updated
OnReply_ThrowsAfterRecords(data, now) ==
    [ended |-> "error",
     records |-> UpdateRecords(data.tools, 1, Records, now),
     toasts |-> Toasts(data.tools, 1),
     appended |-> <<ErrorBubble(now)>>]

\* lines 92-175: the try block from response.json() on
OnReply(data, now) ==
    [ended |-> "reply",
     records |-> UpdateRecords(data.tools, 1, Records, now),
     toasts |-> Toasts(data.tools, 1),
     appended |-> ReplyBubbles(data, now)]

\* the turns submitted so far
Turns == Cardinality({k \in DOMAIN messages : messages[k].isUser})

NoTurn ==
    [kind |-> "none", recordsBefore |-> NoRecords, messagesBefore |-> <<>>]

InitPage ==
    /\ messages = <<>>
    /\ inputValue = <<>>
    /\ isLoading = FALSE
    /\ todos = <<>>
    /\ contacts = <<>>
    /\ meetings = <<>>
    /\ specifications = <<>>
    /\ uiNow = 0
    /\ fetches = {}
    /\ done = NoTurn

\* onChange of the input box (disabled while loading), lines 325-328
Type(text) ==
    /\ ~isLoading
    /\ text # inputValue
    /\ inputValue' = text
    /\ UNCHANGED <<messages, isLoading, todos, contacts, meetings,
                   specifications, uiNow, fetches, done>>
    /\ UNCHANGED <<serverVars, earlier, toolVars>>

\* the three quick-action buttons differ only in the text they put into
\* the input box ('新しいTODOを作成してください', ...), which the page never
\* looks into; the text of the first, shortened, stands for the three
QuickTexts == {<<"t", "o", "d", "o">>}

\* onClick of a quick-action button (disabled while loading), lines 339-361
QuickAction(text) ==
    /\ ~isLoading
    /\ text # inputValue
    /\ inputValue' = text
    /\ UNCHANGED <<messages, isLoading, todos, contacts, meetings,
                   specifications, uiNow, fetches, done>>
    /\ UNCHANGED <<serverVars, earlier, toolVars>>

\* faulty variant: the toggle replaces the list by the clicked item
ToggleTodo_DropsOthers(k) ==
    /\ k \in 1..Len(todos)
    /\ todos' = <<[todos[k] EXCEPT !.completed = ~@]>>
    /\ UNCHANGED <<messages, inputValue, isLoading, contacts, meetings,
                   specifications, uiNow, fetches, done>>
    /\ UNCHANGED <<serverVars, earlier, toolVars>>

\* onClick of the completion button of the k-th item shown, lines 427-436
ToggleTodo(k) ==
    /\ k \in 1..Len(todos)
    /\ todos' = [j \in 1..Len(todos) |->
                    IF todos[j].id = todos[k].id
                    THEN [todos[j] EXCEPT !.completed = ~@]
                    ELSE todos[j]]
    /\ UNCHANGED <<messages, inputValue, isLoading, contacts, meetings,
                   specifications, uiNow, fetches, done>>
    /\ UNCHANGED <<serverVars, earlier, toolVars>>

\* faulty variant: the input is tested without trim
HandleSubmit_NoTrim ==
    /\ Turns < MaxTurns
    /\ IF inputValue = <<>> \/ isLoading
       THEN UNCHANGED uiVars
       ELSE /\ uiNow' = uiNow + 1
            /\ messages' = Append(messages, UserBubble(inputValue, uiNow + 1))
            /\ inputValue' = <<>>
            /\ isLoading' = TRUE
            /\ fetches' = fetches \cup
                   {[turn |-> Turns + 1, stage |-> "request",
                     body |-> RequestBody(inputValue)]}
            /\ UNCHANGED <<todos, contacts, meetings, specifications, done>>
    /\ UNCHANGED <<serverVars, earlier, toolVars>>

\* faulty variant: the handler does not test isLoading and leaves the text
\* in the input box
HandleSubmit_WhileLoading ==
    /\ Turns < MaxTurns
    /\ IF Trim(inputValue) = <<>>
       THEN UNCHANGED uiVars
       ELSE /\ uiNow' = uiNow + 1
            /\ messages' = Append(messages, UserBubble(inputValue, uiNow + 1))
            /\ isLoading' = TRUE
            /\ fetches' = fetches \cup
                   {[turn |-> Turns + 1, stage |-> "request",
                     body |-> RequestBody(inputValue)]}
            /\ UNCHANGED <<inputValue, todos, contacts, meetings,
                           specifications, done>>
    /\ UNCHANGED <<serverVars, earlier, toolVars>>

\* handleSubmit up to the await of fetch, lines 62-86
HandleSubmit ==
    /\ Turns < MaxTurns
    /\ IF Trim(inputValue) = <<>> \/ isLoading
       THEN UNCHANGED uiVars
       ELSE /\ uiNow' = uiNow + 1
            /\ messages' = Append(messages, UserBubble(inputValue, uiNow + 1))
            /\ inputValue' = <<>>
            /\ isLoading' = TRUE
            /\ fetches' = fetches \cup
                   {[turn |-> Turns + 1, stage |-> "request",
                     body |-> RequestBody(inputValue)]}
            /\ UNCHANGED <<todos, contacts, meetings, specifications, done>>
    /\ UNCHANGED <<serverVars, earlier, toolVars>>

\* faulty variant: the new bubbles are put in front of the history
Settle_Prepends(f, outcome, cause) ==
    /\ uiNow' = uiNow + 1
    /\ fetches' = fetches \ {f}
    /\ messages' = outcome.appended \o messages
    /\ todos' = outcome.records.todos
    /\ contacts' = outcome.records.contacts
    /\ meetings' = outcome.records.meetings
    /\ specifications' = outcome.records.specifications
    /\ isLoading' = FALSE
    /\ done' = [kind |-> outcome.ended, cause |-> cause, turn |-> f.turn,
                at |-> uiNow + 1, toasts |-> outcome.toasts,
                recordsBefore |-> Records, messagesBefore |-> messages,
                res |-> IF f.stage = "response" THEN f.res ELSE Undefined,
                run |-> IF f.stage = "response" THEN f.run ELSE NoRun]
    /\ UNCHANGED inputValue
    /\ UNCHANGED <<serverVars, earlier, toolVars>>

\* faulty variant: setIsLoading(false) is the last statement of the try
\* block, not a finally block
Settle_NoFinally(f, outcome, cause) ==
    /\ uiNow' = uiNow + 1
    /\ fetches' = fetches \ {f}
    /\ messages' = messages \o outcome.appended
    /\ todos' = outcome.records.todos
    /\ contacts' = outcome.records.contacts
    /\ meetings' = outcome.records.meetings
    /\ specifications' = outcome.records.specifications
    /\ isLoading' = (outcome.ended = "error")
    /\ done' = [kind |-> outcome.ended, cause |-> cause, turn |-> f.turn,
                at |-> uiNow + 1, toasts |-> outcome.toasts,
                recordsBefore |-> Records, messagesBefore |-> messages,
                res |-> IF f.stage = "response" THEN f.res ELSE Undefined,
                run |-> IF f.stage = "response" THEN f.run ELSE NoRun]
    /\ UNCHANGED inputValue
    /\ UNCHANGED <<serverVars, earlier, toolVars>>

\* the rest of handleSubmit once fetch has settled: how it ends, and finally
Settle(f, outcome, cause) ==
    /\ uiNow' = uiNow + 1
    /\ fetches' = fetches \ {f}
    /\ messages' = messages \o outcome.appended
    /\ todos' = outcome.records.todos
    /\ contacts' = outcome.records.contacts
    /\ meetings' = outcome.records.meetings
    /\ specifications' = outcome.records.specifications
    /\ isLoading' = FALSE
    /\ done' = [kind |-> outcome.ended, cause |-> cause, turn |-> f.turn,
                at |-> uiNow + 1, toasts |-> outcome.toasts,
                recordsBefore |-> Records, messagesBefore |-> messages,
                res |-> IF f.stage = "response" THEN f.res ELSE Undefined,
                run |-> IF f.stage = "response" THEN f.run ELSE NoRun]
    /\ UNCHANGED inputValue
    /\ UNCHANGED <<serverVars, earlier, toolVars>>

\* fetch resolves with the response: lines 88-175, or the catch block
FetchResolves(f) ==
    /\ f.stage = "response"
    /\ IF ResponseOk(f.res)
       THEN Settle(f, OnReply(ResponseJson(f.res), uiNow + 1), "reply")
       ELSE Settle(f, OnFailure(uiNow + 1), "status")

\* faulty variant: a timeout gives the turn up while its request is still
\* under way
FetchRejects_GivesUp(f) ==
    /\ isLoading
    /\ uiNow' = uiNow + 1
    /\ messages' = Append(messages, ErrorBubble(uiNow + 1))
    /\ isLoading' = FALSE
    /\ done' = [kind |-> "error", cause |-> "rejected", turn |-> f.turn,
                at |-> uiNow + 1, toasts |-> <<>>,
                recordsBefore |-> Records, messagesBefore |-> messages,
                res |-> Undefined, run |-> NoRun]
    /\ UNCHANGED <<inputValue, todos, contacts, meetings, specifications,
                   fetches>>
    /\ UNCHANGED <<serverVars, earlier, toolVars>>

\* fetch rejects (the network fails at any stage): the catch block
FetchRejects(f) == Settle(f, OnFailure(uiNow + 1), "rejected")

\* the request of a fetch starts an invocation of POST, the first idle one
ServerReceives(f, i) ==
    /\ f.stage = "request"
    /\ \A j \in 1..i - 1 : pending[j].pc # "idle"
    /\ PostStart(i, f.body)
    /\ fetches' = (fetches \ {f}) \cup
                      {[turn |-> f.turn, stage |-> "handling", inv |-> i]}
    /\ UNCHANGED <<pageVars, done, earlier, toolVars>>

ServerRunReturns(i, result) ==
    /\ PostResolved(i, result)
    /\ UNCHANGED <<uiVars, earlier, toolVars>>

ServerRunThrows(i) ==
    /\ PostRejected(i)
    /\ UNCHANGED <<uiVars, earlier, toolVars>>

\* the response of an invocation travels back to the fetch that is waiting
\* for it; nobody waits when that fetch has rejected meanwhile
ServerResponds ==
    /\ PostDone
    /\ fetches' =
          {IF f.stage = "handling" /\ f.inv = returned.inv
           THEN [turn |-> f.turn, stage |-> "response",
                 res |-> returned.res, run |-> returned.run]
           ELSE f : f \in fetches}
    /\ UNCHANGED <<pageVars, done, earlier, toolVars>>

(***************************************************************************)
(* The tool handlers on their own: a handler is called with any arguments  *)
(* at any clock reading, and then once more with the same arguments.       *)
(***************************************************************************)
Clocks == 1..MaxClock

\* values of an optional string parameter (z.string().nullable().optional())
OptionalStrings == {Undefined, Null, Str("report")}

\* an action outside every enumeration
UnknownAction == "archive"

ToolArgs(tool) ==
    CASE tool = "manage_todo" ->
            [action : ActionEnum(tool) \cup {UnknownAction},
             title : OptionalStrings, description : {Undefined},
             id : OptionalStrings]
      [] tool = "manage_contact" ->
            [action : ActionEnum(tool) \cup {UnknownAction},
             name : OptionalStrings, details : OptionalStrings,
             datetime : {Undefined, Str("10:00")}]
      [] tool = "manage_specification" ->
            [action : ActionEnum(tool) \cup {UnknownAction},
             title : OptionalStrings, content : OptionalStrings,
             type : {Undefined, Str("API")}]

NoCall == [called |-> FALSE]
Call(tool, args, now) ==
    [called |-> TRUE, tool |-> tool, args |-> args, now |-> now,
     outcome |-> Execute(tool, args, now)]

InitTools ==
    /\ toolCall = NoCall
    /\ prevCall = NoCall

\* the SDK calls execute of a tool
ExecuteTool(tool, args, now) ==
    /\ ~toolCall.called
    /\ toolCall' = Call(tool, args, now)
    /\ UNCHANGED <<prevCall, serverVars, earlier, uiVars>>

\* the same tool is called again with the same arguments, now or later
ExecuteAgain(now) ==
    /\ toolCall.called
    /\ ~prevCall.called
    /\ now >= toolCall.now
    /\ prevCall' = toolCall
    /\ toolCall' = Call(toolCall.tool, toolCall.args, now)
    /\ UNCHANGED <<serverVars, earlier, uiVars>>

\* both outcomes have been handed back
ToolsDone ==
    /\ prevCall.called
    /\ toolCall' = NoCall
    /\ prevCall' = NoCall
    /\ UNCHANGED <<serverVars, earlier, uiVars>>

Init == InitServer /\ InitTools /\ InitPage

NextTools ==
    \/ \E tool \in Tools, now \in Clocks :
          \E args \in ToolArgs(tool) : ExecuteTool(tool, args, now)
    \/ \E now \in Clocks : ExecuteAgain(now)
    \/ ToolsDone

SpecTools == Init /\ [][NextTools]_vars

(***************************************************************************)
(* The endpoint on its own: any body may arrive, run may end in any way.   *)
(***************************************************************************)
Receive(i, body) == PostStart(i, body) /\ UNCHANGED <<earlier, toolVars, uiVars>>

RunReturns(i, result) == PostResolved(i, result) /\ UNCHANGED <<earlier, toolVars, uiVars>>

RunThrows(i) == PostRejected(i) /\ UNCHANGED <<earlier, toolVars, uiVars>>

Respond == PostDone /\ UNCHANGED <<earlier, toolVars, uiVars>>

Next ==
    \/ \E i \in Invocations, body \in Bodies : Receive(i, body)
    \/ \E i \in Invocations, result \in Results : RunReturns(i, result)
    \/ \E i \in Invocations : RunThrows(i)
    \/ Respond

Spec == Init /\ [][Next]_vars

(***************************************************************************)
(* The endpoint with a history of one earlier exchange, for comparing two  *)
(* exchanges.  Run results have traces of at most one item.                *)
(***************************************************************************)
HistoryResults ==
    [finalOutput : FinalOutputs,
     lastAgent : {bossAgent, todoManagerAgent},
     newItems : {Arr(<<>>)} \cup {Arr(<<it>>) : it \in Items}]

HistoryReturns(i, result) == PostResolved(i, result) /\ UNCHANGED <<earlier, toolVars, uiVars>>

\* the response is sent and the exchange is kept as the earlier one
Remember ==
    /\ PostDone
    /\ earlier' = Exchange(returned)
    /\ UNCHANGED <<toolVars, uiVars>>

NextHistory ==
    \/ \E i \in Invocations, body \in Bodies : Receive(i, body)
    \/ \E i \in Invocations, result \in HistoryResults : HistoryReturns(i, result)
    \/ \E i \in Invocations : RunThrows(i)
    \/ Respond
    \/ Remember

SpecHistory == Init /\ [][NextHistory]_vars

(***************************************************************************)
(* The page and the endpoint together: the user types and submits, the     *)
(* request travels to POST, run ends in one of a few ways, and the         *)
(* response travels back, unless the network fails on the way.             *)
(***************************************************************************)
TodoArgs(action, title) ==
    [action |-> action, title |-> title, description |-> Str("weekly"),
     id |-> Undefined]
ContactArgs(action) ==
    [action |-> action, name |-> Str("Sato"), details |-> Undefined,
     datetime |-> Str("10:00")]
SpecArgs(action) ==
    [action |-> action, title |-> Str("design"), content |-> Undefined,
     type |-> Undefined]

\* the boss answers on its own
DirectAnswer ==
    [finalOutput |-> "konnichiwa", lastAgent |-> bossAgent,
     newItems |-> Arr(<<MessageOutputItem("boss text", bossAgent)>>)]

\* the TODO agent creates one task
TodoCreated ==
    [finalOutput |-> "kanryou shimashita", lastAgent |-> todoManagerAgent,
     newItems |-> Arr(<<
        MessageOutputItem("boss text", bossAgent),
        HandoffOutputItem(bossAgent),
        ToolCallOutputItem(TodoCreateOutcome, todoManagerAgent),
        MessageOutputItem("todo text", todoManagerAgent)>>)]

\* the TODO agent creates two tasks within one clock tick
TwoTodosCreated ==
    [finalOutput |-> "kanryou shimashita", lastAgent |-> todoManagerAgent,
     newItems |-> Arr(<<
        ToolCallOutputItem(todoManagerTool(TodoArgs("create", Str("report")), 1),
                           todoManagerAgent),
        ToolCallOutputItem(todoManagerTool(TodoArgs("create", Str("slides")), 1),
                           todoManagerAgent)>>)]

\* the contact agent adds a contact and schedules a meeting
ContactAndMeeting ==
    [finalOutput |-> "kanryou shimashita", lastAgent |-> contactManagementAgent,
     newItems |-> Arr(<<
        ToolCallOutputItem(contactManagementTool(ContactArgs("add_contact"), 1),
                           contactManagementAgent),
        ToolCallOutputItem(contactManagementTool(ContactArgs("schedule_meeting"), 1),
                           contactManagementAgent),
        MessageOutputItem("contact text", contactManagementAgent)>>)]

\* the specification agent creates a document
SpecCreated ==
    [finalOutput |-> "kanryou shimashita", lastAgent |-> specificationAgent,
     newItems |-> Arr(<<
        ToolCallOutputItem(specificationTool(SpecArgs("create_spec"), 1),
                           specificationAgent)>>)]

\* tool calls that create nothing: a task without a title, a listing, an
\* action the tool does not know, a look at the schedule
NothingCreated ==
    [finalOutput |-> "kanryou shimashita", lastAgent |-> todoManagerAgent,
     newItems |-> Arr(<<
        ToolCallOutputItem(todoManagerTool(TodoArgs("create", Undefined), 1),
                           todoManagerAgent),
        ToolCallOutputItem(todoManagerTool(TodoArgs("list", Undefined), 1),
                           todoManagerAgent),
        ToolCallOutputItem(todoManagerTool(TodoArgs(UnknownAction, Undefined), 1),
                           todoManagerAgent),
        ToolCallOutputItem(CheckScheduleOutcome, contactManagementAgent)>>)]

\* a tool call fails inside the SDK (arguments that do not fit the tool's
\* parameters): the output is the SDK's error text, a string, and not an
\* outcome of a handler
ToolCallFailed ==
    [finalOutput |-> "kanryou shimashita", lastAgent |-> todoManagerAgent,
     newItems |-> Arr(<<
        ToolCallOutputItem(Str("An error occurred while running the tool."),
                           todoManagerAgent),
        ToolCallOutputItem(TodoCreateOutcome, todoManagerAgent)>>)]

PageResults ==
    {DirectAnswer, TodoCreated, TwoTodosCreated, ContactAndMeeting,
     SpecCreated, NothingCreated, ToolCallFailed}

NextUI ==
    \/ \E text \in TypedTexts : Type(text)
    \/ \E text \in QuickTexts : QuickAction(text)
    \/ HandleSubmit
    \/ \E k \in 1..MaxShown : ToggleTodo(k)
    \/ \E f \in fetches, i \in Invocations : ServerReceives(f, i)
    \/ \E i \in Invocations, result \in PageResults : ServerRunReturns(i, result)
    \/ \E i \in Invocations : ServerRunThrows(i)
    \/ ServerResponds
    \/ \E f \in fetches : FetchResolves(f)
    \/ \E f \in fetches : FetchRejects(f)

SpecUI == Init /\ [][NextUI]_vars

\* The turns alone, for progress: the events that neither read nor write
\* isLoading and the requests (typing, the completion toggle) are left
\* out, and the text comes from a quick-action button.
NextTurns ==
    \/ \E text \in QuickTexts : QuickAction(text)
    \/ HandleSubmit
    \/ \E f \in fetches, i \in Invocations : ServerReceives(f, i)
    \/ \E i \in Invocations, result \in PageResults : ServerRunReturns(i, result)
    \/ \E i \in Invocations : ServerRunThrows(i)
    \/ ServerResponds
    \/ \E f \in fetches : FetchResolves(f)
    \/ \E f \in fetches : FetchRejects(f)

\* once the promise of fetch has resolved, the event loop runs the rest of
\* handleSubmit; nothing else is assumed to happen
SpecUILive ==
    /\ Init
    /\ [][NextTurns]_vars
    /\ WF_vars(\E f \in fetches : FetchResolves(f))

(***************************************************************************)
(* Properties of the endpoint.                                             *)
(***************************************************************************)
\* a response has been returned, and it is a 200 reply to a run result
Replied == returned # None /\ returned.res.status = 200
Reply == returned.res.body
RunResult == returned.run.result

\* the reply carries handoffOccurred and it is true
HandoffTrue == "handoffOccurred" \in DOMAIN Reply /\ Reply.handoffOccurred = TRUE

\* C1: a request whose JSON body has no message, or the empty string as
\* message, is answered with status 400 and {error: "Message is required"},
\* and run was not called for it.
C1_MissingMessageIs400 ==
    (/\ returned # None
     /\ returned.body.kind \in {"object", "scalar"}
     /\ returned.body.kind = "object"
            => returned.body.message \in {Undefined, Str("")})
    => /\ returned.res = [status |-> 400, body |-> [error |-> "Message is required"]]
       /\ returned.runCalls = 0
       /\ returned.run = NoRun

C1_Witness ==
    /\ returned # None
    /\ returned.body = [kind |-> "object", message |-> Str("")]
    /\ returned.res.status = 400
    /\ returned.runCalls = 0

\* C2: when the message is non-empty and run fails, the response is status
\* 500 with {error: "Internal server error"} and nothing else in the body.
C2_RunFailureIs500 ==
    (/\ returned # None
     /\ returned.body.kind = "object"
     /\ Truthy(returned.body.message)
     /\ returned.run = RunThrew)
    => /\ returned.res.status = 500
       /\ DOMAIN returned.res.body = {"error"}
       /\ returned.res.body.error = "Internal server error"

C2_Witness ==
    /\ returned # None
    /\ returned.body = [kind |-> "object", message |-> Str("hello")]
    /\ returned.run = RunThrew
    /\ returned.runCalls = 1
    /\ returned.res.status = 500

\* C3: in a 200 reply handoffOccurred is true exactly when the run result
\* has a lastAgent whose name is not the routing agent's.
C3_HandoffIffLastAgentNotBoss ==
    Replied =>
        (HandoffTrue <=>
            (RunResult.lastAgent # Undefined /\ RunResult.lastAgent.name # "Boss"))

C3_Witness ==
    /\ Replied
    /\ HandoffTrue
    /\ RunResult.lastAgent = todoManagerAgent

\* C4: when handoffOccurred is true the response text is the delegation
\* string made of lastAgent.name, not finalOutput.
C4_HandoffResponseIsDelegation ==
    (Replied /\ HandoffTrue)
    => /\ Reply.response = RunResult.lastAgent.name \o " ni irai itashimasu."
       /\ Reply.response # RunResult.finalOutput

C4_Witness ==
    /\ Replied
    /\ HandoffTrue
    /\ RunResult.lastAgent = contactManagementAgent
    /\ RunResult.finalOutput = "kanryou shimashita"
    /\ Reply.response = "Renraku-kanri-gakari ni irai itashimasu."

\* C5: when no handoff occurred (handoffOccurred is not true, lastAgent is
\* the routing agent) the response text is finalOutput unchanged.
C5_NoHandoffResponseIsFinalOutput ==
    (Replied /\ ~HandoffTrue) => Reply.response = RunResult.finalOutput

C5_Witness ==
    /\ Replied
    /\ RunResult.lastAgent = bossAgent
    /\ RunResult.finalOutput = "konnichiwa"
    /\ Reply.response = "konnichiwa"
    /\ Reply.handoffOccurred = FALSE

\* the outputs of the tool-call-output items of a trace, in trace order
ToolOutputsOf(items) ==
    LET sel == SelectSeq(items, LAMBDA it : it.type = "tool_call_output_item")
    IN [k \in 1..Len(sel) |-> sel[k].output]

\* C6: tools is exactly the sequence of outputs of the tool-call-output
\* items of newItems, in their order, whatever their speaker or agent.
C6_ToolsAreAllToolOutputsInOrder ==
    (Replied /\ RunResult.newItems # Undefined)
    => /\ Reply.tools = ToolOutputsOf(RunResult.newItems.items)
       /\ Len(Reply.tools) =
            Cardinality({k \in 1..Len(RunResult.newItems.items) :
                RunResult.newItems.items[k].type = "tool_call_output_item"})

C6_Witness ==
    /\ Replied
    /\ RunResult.lastAgent = bossAgent
    /\ RunResult.newItems # Undefined
    /\ Reply.tools = <<CheckScheduleOutcome, TodoCreateOutcome>>

\* C7: no entry of agentResponses in a 200 reply has the routing agent as
\* speaker.
C7_NoBossInAgentResponses ==
    Replied =>
        \A k \in 1..Len(Reply.agentResponses) :
            Reply.agentResponses[k].speaker # "Boss"

C7_Witness ==
    /\ Replied
    /\ RunResult.newItems # Undefined
    /\ \E k \in 1..Len(RunResult.newItems.items) :
          RunResult.newItems.items[k] = MessageOutputItem("boss text", bossAgent)
    /\ Len(Reply.agentResponses) = 1

\* the agent messages of a trace that are not the routing agent's, in trace
\* order, as {content, speaker}
AgentMessagesOf(items) ==
    LET sel == SelectSeq(items,
                   LAMBDA it : /\ it.type = "message_output_item"
                               /\ it.agent # Undefined
                               /\ it.agent.name # "Boss")
    IN [k \in 1..Len(sel) |->
           [content |-> sel[k].content, speaker |-> sel[k].agent.name]]

\* C8: agentResponses is exactly the subsequence of the agent-message items
\* of newItems whose agent is not the routing agent, in order, each as
\* {content, speaker: agent name}.
C8_AgentResponsesAreNonBossMessages ==
    (Replied /\ RunResult.newItems # Undefined)
    => Reply.agentResponses = AgentMessagesOf(RunResult.newItems.items)

C8_Witness ==
    /\ Replied
    /\ RunResult.newItems # Undefined
    /\ Reply.agentResponses =
          <<[content |-> "contact text", speaker |-> "Renraku-kanri-gakari"],
            [content |-> "todo text", speaker |-> "TODO-kanri-gakari"]>>

\* C9 as stated: an empty newItems gives tools = [], agentResponses = [],
\* handoffOccurred = false and response = finalOutput.  Stated for run
\* results that have a lastAgent, so that a violation is a reply with
\* handoffOccurred = true and not one that lacks the field.
C9_Original ==
    (Replied /\ RunResult.newItems = Arr(<<>>) /\ RunResult.lastAgent # Undefined)
    => /\ Reply.tools = <<>>
       /\ Reply.agentResponses = <<>>
       /\ "handoffOccurred" \in DOMAIN Reply
       /\ Reply.handoffOccurred = FALSE
       /\ Reply.response = RunResult.finalOutput

\* C9: an empty newItems gives tools = [] and agentResponses = []; when
\* moreover lastAgent is the routing agent, handoffOccurred = false and
\* response = finalOutput.
C9_EmptyTrace ==
    (Replied /\ RunResult.newItems = Arr(<<>>))
    => /\ Reply.tools = <<>>
       /\ Reply.agentResponses = <<>>
       /\ RunResult.lastAgent = bossAgent
            => /\ "handoffOccurred" \in DOMAIN Reply
               /\ Reply.handoffOccurred = FALSE
               /\ Reply.response = RunResult.finalOutput

C9_Witness ==
    /\ Replied
    /\ RunResult.newItems = Arr(<<>>)
    /\ RunResult.lastAgent = bossAgent
    /\ Reply.response = "konnichiwa"

\* C10: every 200 reply has the five fields response, speaker, tools,
\* agentResponses and handoffOccurred, and handoffOccurred is a boolean,
\* also when the run result has no lastAgent.
C10_FiveFieldsBooleanHandoff ==
    Replied =>
        /\ DOMAIN Reply =
              {"response", "speaker", "tools", "agentResponses", "handoffOccurred"}
        /\ Reply.handoffOccurred \in BOOLEAN

ToastSet(outcome) == "showToast" \in DOMAIN outcome /\ outcome.showToast = TRUE

\* C13: a handler called with an action outside its enumeration returns
\* (it does not throw) the outcome {success: false, message: unknown
\* action, speaker: the handler's own label}.
C13_UnknownActionOutcome ==
    (toolCall.called /\ toolCall.args.action \notin ActionEnum(toolCall.tool))
    => toolCall.outcome =
          [success |-> FALSE,
           message |-> "fumei na action desu",
           speaker |-> CASE toolCall.tool = "manage_todo" -> "TODO-kanri-gakari"
                         [] toolCall.tool = "manage_contact" -> "Renraku-kanri-gakari"
                         [] toolCall.tool = "manage_specification" -> "Shiyousho-kanri-gakari"]

C13_Witness ==
    /\ toolCall.called
    /\ toolCall.tool = "manage_contact"
    /\ toolCall.args.action = "archive"
    /\ toolCall.outcome.success = FALSE
    /\ toolCall.outcome.speaker = "Renraku-kanri-gakari"

\* actions that change something, and actions that only read
MutatingActions ==
    {"create", "complete", "add_contact", "schedule_meeting", "send_reminder",
     "create_spec", "update_requirement", "generate_template"}
ReadActions == {"list", "check_schedule", "review_doc"}

\* C14: for a recognized action, showToast is true when the action is
\* state-mutating (complete, update and send included) and is not true
\* when the action is a read action.
C14_ToastIffMutating ==
    (toolCall.called /\ toolCall.args.action \in ActionEnum(toolCall.tool))
    => /\ toolCall.args.action \in MutatingActions => ToastSet(toolCall.outcome)
       /\ toolCall.args.action \in ReadActions => ~ToastSet(toolCall.outcome)

\* the handler reads the clock for these arguments: the id of a created
\* TODO, the date line of a generated document
ReadsClock(tool, args) ==
    \/ tool = "manage_todo" /\ args.action = "create"
    \/ tool = "manage_specification" /\ args.action = "generate_template"
    \/ tool = "manage_specification" /\ args.action = "create_spec"
          /\ args.content \in {Undefined, Null, Str("")}

\* C15 as stated: two calls of a handler with the same arguments return
\* the same outcome, whatever the clock reads.
C15_Original ==
    (/\ toolCall.called /\ prevCall.called
     /\ prevCall.tool = toolCall.tool
     /\ prevCall.args = toolCall.args)
    => prevCall.outcome = toolCall.outcome

\* C15: two calls of a handler with the same arguments return the same
\* outcome when the clock reads the same at both, and, for arguments for
\* which the handler does not read the clock, at any two clock readings;
\* an earlier call has no effect on a later one.
C15_DeterministicGivenClock ==
    (/\ toolCall.called /\ prevCall.called
     /\ prevCall.tool = toolCall.tool
     /\ prevCall.args = toolCall.args
     /\ \/ prevCall.now = toolCall.now
        \/ ~ReadsClock(toolCall.tool, toolCall.args))
    => prevCall.outcome = toolCall.outcome

C15_Witness ==
    /\ toolCall.called /\ prevCall.called
    /\ toolCall.tool = "manage_todo"
    /\ toolCall.args.action = "create"
    /\ prevCall.now = toolCall.now
    /\ prevCall.outcome = toolCall.outcome
    /\ toolCall.outcome.data.id = Str("2")

(***************************************************************************)
(* Properties of the page.  A step in which done changes is the step in    *)
(* which the rest of handleSubmit ran for a settled fetch.                 *)
(***************************************************************************)
\* the trace of the run behind a settled turn
TraceOf(turn) ==
    IF turn.run.ended = "returned" /\ Truthy(turn.run.result.newItems)
    THEN turn.run.result.newItems.items
    ELSE <<>>

\* an outcome of the create action of the TODO tool: the only outcomes of
\* that tool whose data carries an id
IsTodoCreate(outcome) ==
    /\ SpeakerOf(outcome) = TodoSpeaker
    /\ HasData(outcome)
    /\ "id" \in DOMAIN outcome.data

TodoCreatesOf(items) ==
    SelectSeq(ToolOutputsOf(items), LAMBDA o : IsTodoCreate(o))

\* C16: when the trace of a turn contains one output of the TODO tool's
\* create action and it has a title, the reply's tools contains that one
\* outcome with data.title set and showToast true, the title survives the
\* wire, and the step that processes the reply appends exactly one task
\* record with that title and completed = false to the TODO list.
C16_TodoCreationEndToEnd ==
    [][(/\ done' # done
        /\ done'.kind = "reply"
        /\ Len(TodoCreatesOf(TraceOf(done'))) = 1
        /\ Truthy(TodoCreatesOf(TraceOf(done'))[1].data.title))
       => LET created == TodoCreatesOf(TraceOf(done'))[1]
              sent == done'.res.body.tools
              parsed == ResponseJson(done'.res).tools
          IN /\ SelectSeq(sent, LAMBDA o : IsTodoCreate(o)) = <<created>>
             /\ created.showToast = TRUE
             /\ \E k \in 1..Len(parsed) :
                   /\ IsTodoCreate(parsed[k])
                   /\ parsed[k].data.title = created.data.title
             /\ Len(todos') = Len(todos) + 1
             /\ SubSeq(todos', 1, Len(todos)) = todos
             /\ todos'[Len(todos')].title = created.data.title
             /\ todos'[Len(todos')].completed = FALSE]_vars

C16_Witness ==
    /\ done.kind = "reply"
    /\ done.run.result = TodoCreated
    /\ done.turn = 2
    /\ Len(done.recordsBefore.todos) = 2
    /\ Len(todos) = 3
    /\ todos[3].title = Str("report")
    /\ todos[3].completed = FALSE

\* what bubbles show: their content and speaker, in order
Shown(bubbles) ==
    [k \in 1..Len(bubbles) |->
        [content |-> bubbles[k].content, speaker |-> bubbles[k].speaker]]

\* the bubbles a step appended to the history
Appended(before, after) == SubSeq(after, Len(before) + 1, Len(after))

\* C17 as stated: on a successful reply the page appends one bubble for
\* response/speaker and then one bubble for each entry of agentResponses,
\* with that entry's content and speaker, in order.
C17_Original ==
    [][(done' # done /\ done'.kind = "reply")
       => LET data == ResponseJson(done'.res)
          IN /\ Len(messages') >= Len(messages)
             /\ SubSeq(messages', 1, Len(messages)) = messages
             /\ Shown(Appended(messages, messages')) =
                   <<[content |-> data.response, speaker |-> data.speaker]>>
                   \o data.agentResponses]_vars

\* C17: on a successful reply the page appends one bubble for
\* response/speaker and then one bubble for each entry of tools that has a
\* message and a speaker, with that entry's message and speaker, in order;
\* the entries of agentResponses produce no bubble.
C17_BubblesAreResponseThenToolMessages ==
    [][(done' # done /\ done'.kind = "reply")
       => LET data == ResponseJson(done'.res)
              speaking == SelectSeq(data.tools,
                              LAMBDA t : /\ "message" \in DOMAIN t
                                         /\ "speaker" \in DOMAIN t
                                         /\ t.message # ""
                                         /\ t.speaker # "")
          IN /\ Len(messages') >= Len(messages)
             /\ SubSeq(messages', 1, Len(messages)) = messages
             /\ Shown(Appended(messages, messages')) =
                   <<[content |-> data.response, speaker |-> data.speaker]>>
                   \o [k \in 1..Len(speaking) |->
                          [content |-> speaking[k].message,
                           speaker |-> speaking[k].speaker]]]_vars

C17_Witness ==
    /\ done.kind = "reply"
    /\ done.run.result = TodoCreated
    /\ Len(done.res.body.agentResponses) = 1
    /\ done.res.body.agentResponses[1].content = "todo text"
    /\ Len(messages) = Len(done.messagesBefore) + 2
    /\ messages[Len(messages)].content = TodoCreateOutcome.message
    /\ messages[Len(messages)].speaker = TodoSpeaker

\* the values of one field of the data of some tool entries, in order
DataField(entries, field) ==
    [k \in 1..Len(entries) |-> entries[k].data[field]]

\* the values of one field of some records, in order
RecordField(records, field) ==
    [k \in 1..Len(records) |-> records[k][field]]

\* the entries whose data has the field, whatever their speaker
EntriesWith(tools, field) ==
    SelectSeq(tools, LAMBDA t : HasData(t) /\ Truthy(Field(t.data, field)))

\* the entries of one speaker whose data has the field
EntriesOf(tools, speaker, field) ==
    SelectSeq(tools, LAMBDA t : /\ "speaker" \in DOMAIN t
                                /\ t.speaker = speaker
                                /\ HasData(t)
                                /\ Truthy(Field(t.data, field)))

\* each list only grows at its end
ListsGrow ==
    /\ Len(todos') >= Len(todos)
    /\ SubSeq(todos', 1, Len(todos)) = todos
    /\ Len(contacts') >= Len(contacts)
    /\ SubSeq(contacts', 1, Len(contacts)) = contacts
    /\ Len(meetings') >= Len(meetings)
    /\ SubSeq(meetings', 1, Len(meetings)) = meetings
    /\ Len(specifications') >= Len(specifications)
    /\ SubSeq(specifications', 1, Len(specifications)) = specifications

\* C18 as stated: every entry whose data has title is appended to the task
\* list, every entry whose data has contactName to the contact list and
\* every entry whose data has meetingTitle to the meeting list, whatever
\* the entry's speaker.
C18_Original ==
    [][(done' # done /\ done'.kind = "reply")
       => LET tools == ResponseJson(done'.res).tools
          IN /\ ListsGrow
             /\ RecordField(Appended(todos, todos'), "title") =
                   DataField(EntriesWith(tools, "title"), "title")
             /\ RecordField(Appended(contacts, contacts'), "name") =
                   DataField(EntriesWith(tools, "contactName"), "contactName")
             /\ RecordField(Appended(meetings, meetings'), "title") =
                   DataField(EntriesWith(tools, "meetingTitle"),
                             "meetingTitle")]_vars

\* C18: the page buckets each tool entry by its speaker and then by field
\* presence: an entry of the TODO speaker whose data has title goes to the
\* task list; an entry of the contact speaker goes to the contact list when
\* its data has contactName and otherwise to the meeting list when its data
\* has meetingTitle; an entry of the specification speaker whose data has
\* title goes to the specification list; no other entry is added anywhere.
C18_BucketsBySpeakerThenField ==
    [][(done' # done /\ done'.kind = "reply")
       => LET tools == ResponseJson(done'.res).tools
              unnamed == SelectSeq(tools,
                             LAMBDA t : ~(/\ HasData(t)
                                          /\ Truthy(Field(t.data, "contactName"))))
          IN /\ ListsGrow
             /\ RecordField(Appended(todos, todos'), "title") =
                   DataField(EntriesOf(tools, TodoSpeaker, "title"), "title")
             /\ RecordField(Appended(contacts, contacts'), "name") =
                   DataField(EntriesOf(tools, ContactSpeaker, "contactName"),
                             "contactName")
             /\ RecordField(Appended(meetings, meetings'), "title") =
                   DataField(EntriesOf(unnamed, ContactSpeaker, "meetingTitle"),
                             "meetingTitle")
             /\ RecordField(Appended(specifications, specifications'), "title") =
                   DataField(EntriesOf(tools, SpecSpeaker, "title"),
                             "title")]_vars

C18_Witness ==
    /\ done.kind = "reply"
    /\ done.run.result = SpecCreated
    /\ Truthy(ResponseJson(done.res).tools[1].data.title)
    /\ todos = done.recordsBefore.todos
    /\ Len(specifications) = Len(done.recordsBefore.specifications) + 1
    /\ specifications[Len(specifications)].title = Str("design")

\* the fallback bubble of the catch block
IsFallback(bubble) ==
    /\ bubble.content = ErrorText
    /\ bubble.isUser = FALSE

\* C19: when the fetch of a turn rejects, or resolves with a status outside
\* 200..299, the rest of handleSubmit appends exactly one bubble to the
\* history, the fallback "Sorry, I encountered an error. Please try
\* again.", and runs to its end: the page is no longer loading and the turn
\* is settled as an error, not as a reply.
C19_FailureIsOneFallbackBubble ==
    [][(/\ done' # done
        /\ \/ done'.cause = "rejected"
           \/ done'.res # Undefined /\ ~ResponseOk(done'.res))
       => /\ Len(messages') = Len(messages) + 1
          /\ SubSeq(messages', 1, Len(messages)) = messages
          /\ IsFallback(messages'[Len(messages')])
          /\ done'.kind = "error"
          /\ isLoading' = FALSE]_vars

C19_Witness ==
    /\ done.kind = "error"
    /\ done.cause = "status"
    /\ done.res.status = 500
    /\ done.turn = 2
    /\ Len(messages) = 4
    /\ IsFallback(messages[2])
    /\ IsFallback(messages[4])
    /\ ~isLoading

\* some list has more records after the step than before
RecordAdded ==
    \/ Len(todos') > Len(todos)
    \/ Len(contacts') > Len(contacts)
    \/ Len(meetings') > Len(meetings)
    \/ Len(specifications') > Len(specifications)

\* C20: a step that appends the fallback bubble leaves the task, contact,
\* meeting and specification lists as they were, and a record is added
\* only in a step that settles a turn as a reply and appends its reply
\* bubbles, the first of them the bubble for response/speaker.
C20_TurnSucceedsOrFailsWhole ==
    [][/\ (/\ Len(messages') > Len(messages)
           /\ IsFallback(messages'[Len(messages')]))
          => Records' = Records
       /\ RecordAdded
          => /\ done' # done
             /\ done'.kind = "reply"
             /\ Len(messages') > Len(messages)
             /\ SubSeq(messages', 1, Len(messages)) = messages
             /\ messages'[Len(messages) + 1].content = done'.res.body.response
             /\ \A k \in Len(messages) + 1..Len(messages') :
                   ~IsFallback(messages'[k])]_vars

C20_Witness ==
    /\ done.kind = "error"
    /\ done.turn = 2
    /\ IsFallback(messages[Len(messages)])
    /\ Len(todos) = 1
    /\ Records = done.recordsBefore
    /\ ~IsFallback(messages[2])

(***************************************************************************)
(* The endpoint as a whole (Spec).                                         *)
(***************************************************************************)
\* C29: an invocation of POST that finishes returns one response, of status
\* 200, 400 or 500, built by NextResponse.json, so no exception escapes;
\* the status is 200 only if run was called and resolved, and a request
\* whose body cannot be parsed or destructured is answered with 500
\* without run being called.
C29_OneResponseOfKnownStatus ==
    returned # None =>
        /\ returned.res.status \in {200, 400, 500}
        /\ DOMAIN returned.res = {"status", "body"}
        /\ returned.res.status = 200
              => /\ returned.runCalls = 1
                 /\ returned.run.ended = "returned"
                 /\ returned.res = ChatReply(returned.run.result)
        /\ returned.run = RunThrew => returned.res = InternalServerError
        /\ returned.body.kind \in {"unparsable", "null"}
              => /\ returned.res = InternalServerError
                 /\ returned.runCalls = 0
        /\ pending[returned.inv].pc = "idle"

C29_Witness ==
    /\ returned # None
    /\ returned.body.kind = "unparsable"
    /\ returned.res.status = 500
    /\ returned.run = NoRun

(***************************************************************************)
(* The page over any sequence of events (SpecUI).                          *)
(***************************************************************************)
\* the list after a step starts with the list before it
Extends(before, after) ==
    /\ Len(after) >= Len(before)
    /\ SubSeq(after, 1, Len(before)) = before

\* C21: in every step the contact, meeting and specification lists keep
\* their records and only grow at the end; the task list keeps its length
\* or grows at the end, and each task it had is unchanged except for
\* completed; completed changes only in a step that changes nothing but
\* the task list, the click on a completion toggle.
C21_ListsOnlyGrow ==
    [][/\ Extends(contacts, contacts')
       /\ Extends(meetings, meetings')
       /\ Extends(specifications, specifications')
       /\ Len(todos') >= Len(todos)
       /\ \A k \in 1..Len(todos) :
             [todos'[k] EXCEPT !.completed = todos[k].completed] = todos[k]
       /\ (\E k \in 1..Len(todos) : todos'[k].completed # todos[k].completed)
             => /\ Len(todos') = Len(todos)
                /\ UNCHANGED <<messages, inputValue, isLoading, contacts,
                               meetings, specifications, fetches, done>>]_vars

C21_Witness ==
    /\ Len(todos) = 3
    /\ todos[1].completed
    /\ ~todos[3].completed
    /\ Len(contacts) = 0
    /\ done.kind = "reply"
    /\ done.turn = 2
    /\ Len(done.recordsBefore.todos) = 2
    /\ done.recordsBefore.todos[1].completed

\* the requests a step issued
Issued == {f \in fetches' \ fetches : f.stage = "request"}

\* C22: a step that accepts a submit issues exactly one request, and no
\* other step issues one (no retry); while a request is under way the page
\* is loading, and loading ends only in the step that settles that request
\* as completed or failed (no cancellation, no timeout).
C22_OneRequestLoadingUntilSettled ==
    [][/\ Turns' = Turns + 1
          => /\ Cardinality(Issued) = 1
             /\ \A f \in Issued : f.turn = Turns'
       /\ Issued # {} => Turns' = Turns + 1
       /\ fetches' # {} => isLoading'
       /\ (isLoading /\ ~isLoading')
          => /\ done' # done
             /\ fetches' = {}
             /\ \E f \in fetches : f.turn = done'.turn]_vars

C22_Witness ==
    /\ isLoading
    /\ Turns = 2
    /\ done.kind = "error"
    /\ \E f \in fetches : f.turn = 2 /\ f.stage = "handling"
    /\ \E i \in Invocations : pending[i].pc = "awaiting"
    /\ returned = None

\* C23: at most one request of the page is under way at any time, and no
\* step taken while the page is loading, a submit event among them, issues
\* a request or appends a user message.
C23_AtMostOneRequestInFlight ==
    [][/\ Cardinality(fetches') <= 1
       /\ isLoading => (Issued = {} /\ Turns' = Turns)]_vars

C23_Witness ==
    /\ isLoading
    /\ Turns = 1
    /\ Turns < MaxTurns
    /\ inputValue = <<>>
    /\ \E f \in fetches : f.stage = "response" /\ f.turn = 1
    /\ Cardinality(fetches) = 1

\* C25: every step keeps the bubbles the history had, in their order, and
\* adds bubbles only at its end: either one user bubble, when the bubble
\* before it is not a user bubble, or the assistant bubbles of the turn
\* that is settled, when the last bubble is the user bubble of that turn.
C25_HistoryAppendOnlyTurnOrdered ==
    [][/\ Extends(messages, messages')
       /\ LET added == Appended(messages, messages')
          IN /\ (\E k \in 1..Len(added) : added[k].isUser)
                   => /\ Len(added) = 1
                      /\ messages # <<>> => ~messages[Len(messages)].isUser
             /\ (added # <<>> /\ ~added[1].isUser)
                   => /\ \A k \in 1..Len(added) : ~added[k].isUser
                      /\ messages # <<>>
                      /\ messages[Len(messages)].isUser
                      /\ done' # done
                      /\ done'.turn = Turns
                      /\ \/ done'.kind = "reply" /\ ~IsFallback(added[1])
                         \/ /\ done'.kind = "error"
                            /\ Len(added) = 1
                            /\ IsFallback(added[1])]_vars

C25_Witness ==
    /\ Len(messages) = 5
    /\ messages[1].isUser
    /\ messages[2].speaker = BossName
    /\ messages[3].speaker = TodoSpeaker
    /\ messages[4].isUser
    /\ IsFallback(messages[5])
    /\ done.turn = 2

\* the entry has a message and a speaker
HasBothFields(tool) ==
    /\ "message" \in DOMAIN tool
    /\ "speaker" \in DOMAIN tool
    /\ tool.message # ""
    /\ tool.speaker # ""

\* C26: on a successful reply the first bubble appended is the routing
\* agent's; after it comes one bubble for each entry of tools that has a
\* message and a speaker, at the place its entry has among those entries
\* and with its message and speaker; an entry that lacks one of the two
\* has no bubble.
C26_ToolBubblesFollowRoutingBubble ==
    [][(done' # done /\ done'.kind = "reply")
       => LET data == ResponseJson(done'.res)
              added == Appended(messages, messages')
              having == {k \in 1..Len(data.tools) : HasBothFields(data.tools[k])}
              place(k) == 1 + Cardinality({j \in having : j <= k})
          IN /\ Len(added) = 1 + Cardinality(having)
             /\ added[1].content = data.response
             /\ added[1].speaker = BossName
             /\ \A k \in having :
                   /\ added[place(k)].content = data.tools[k].message
                   /\ added[place(k)].speaker = data.tools[k].speaker
                   /\ ~added[place(k)].isUser]_vars

C26_Witness ==
    /\ done.kind = "reply"
    /\ done.run.result = ToolCallFailed
    /\ Len(ResponseJson(done.res).tools) = 2
    /\ ~HasBothFields(ResponseJson(done.res).tools[1])
    /\ HasBothFields(ResponseJson(done.res).tools[2])
    /\ Len(messages) = Len(done.messagesBefore) + 2
    /\ messages[Len(messages)].content = TodoCreateOutcome.message

\* a click on a completion toggle: the task list changes, keeping its
\* length, and nothing else of the page does
ToggleStep ==
    /\ todos' # todos
    /\ Len(todos') = Len(todos)
    /\ UNCHANGED <<messages, inputValue, isLoading, contacts, meetings,
                   specifications, fetches, done>>

\* C27: a click on a completion toggle flips completed of exactly one item
\* of the task list and leaves every other item as it was.
C27_ToggleFlipsOneItem ==
    [][ToggleStep
       => \E k \in 1..Len(todos) :
             /\ todos'[k] = [todos[k] EXCEPT !.completed = ~@]
             /\ \A j \in 1..Len(todos) : j # k => todos'[j] = todos[j]]_vars

\* the text has a character that is not whitespace
HasInk(text) == \E k \in 1..Len(text) : text[k] \notin Whitespace

\* C28: from a state whose input is empty or whitespace only, a submit
\* changes nothing, and no step at all issues a request or appends a user
\* message; every request under way carries as message a text with at
\* least one character that is not whitespace, sent as it was typed.
C28_BlankSubmitChangesNothing ==
    [][/\ (~HasInk(inputValue) /\ HandleSubmit) => UNCHANGED vars
       /\ ~HasInk(inputValue) => (Issued = {} /\ Turns' = Turns)
       /\ \A f \in Issued :
             /\ HasInk(inputValue)
             /\ f.body = [kind |-> "object", message |-> Str(Join(inputValue))]
             /\ Join(inputValue) \notin
                   {Join(t) : t \in {u \in TypedTexts \cup QuickTexts : ~HasInk(u)}}]_vars

C28_Witness ==
    /\ inputValue = <<" ">>
    /\ ~isLoading
    /\ Turns = 1
    /\ Turns < MaxTurns
    /\ messages[1].content = " go "
    /\ done.turn = 1
    /\ fetches = {}

(***************************************************************************)
(* Progress of the page (SpecUILive).                                      *)
(***************************************************************************)
\* the response of the request under way has arrived
ResponseArrived == \E f \in fetches : f.stage = "response"

\* handleSubmit accepts a submit with text in the input box
SubmitAccepted == ~isLoading

\* C24: once the response of a request has arrived, whatever its status,
\* the page eventually stops loading and accepts a submit again; and every
\* step that settles a turn, as a reply, after a status outside 200..299,
\* after a rejected fetch or after a failure while the reply is read, ends
\* loading at once.
C24_LoadingEnds ==
    /\ [][done' # done => (~isLoading' /\ fetches' = {})]_vars
    /\ ResponseArrived ~> (SubmitAccepted /\ fetches = {})

C24_Witness ==
    /\ SubmitAccepted
    /\ done.kind = "error"
    /\ done.cause = "rejected"
    /\ done.res # Undefined
    /\ done.turn = 2
    /\ fetches = {}

====
